---- MODULE Spec2Model ----
(***************************************************************************)
(* taho_routes: a network of locations in 3D space (SpaceNetwork) and its  *)
(* Dijkstra search (SpaceNetwork::shortest_route), src/src/lib.rs.         *)
(*                                                                         *)
(* Handles (LocationId) are the 0-based indices of the code; the Vecs of   *)
(* the code are 1-based sequences here, so locations[id + 1] is the code's *)
(* self.locations[id.0].  Option<T> is a sequence: None is << >> and       *)
(* Some(x) is <<x>>.                                                       *)
(*                                                                         *)
(* Two specifications drive the same container:                            *)
(*   Spec        the caller mutates the network and queries it, keeping    *)
(*               the last returned Route while it goes on mutating;        *)
(*   SpecSearch  the caller builds a network and queries it; each call is  *)
(*               observed together with the locals it ended with and the   *)
(*               log of its loop iterations, until the Route is dropped.   *)
(***************************************************************************)
EXTENDS Integers, Sequences, FiniteSets

\* Model bounds.
MaxLocs == 3
MaxEdges == 2
SearchLocs == 4
SearchEdges == 4
ExpandLocs == 5
ExpandEdges == 4

\* f64::INFINITY: larger than every finite cost the bounded model can form.
Infinity == 1000000

VARIABLES locations, adjacency, ret, route, pc, start, goal, dist, prev, heap, popped

vars == <<locations, adjacency, ret, route, pc, start, goal, dist, prev, heap, popped>>

None == << >>
Some(x) == <<x>>

\* ---------------------------------------------------------------- geometry

Point3(x, y, z) == [x |-> x, y |-> y, z |-> z]

\* The positions the callers use.  Within each set the points are collinear
\* integer points, so that every distance is an integer: dx*dx + dy*dy + dz*dz
\* is a perfect square, its f64 square root is exact, and so is every sum.
Points == {Point3(0, 0, 0), Point3(1, 0, 0), Point3(2, 0, 0)}

SearchPoints == {Point3(0, 0, 0), Point3(2, 3, 6)}

\* f64::sqrt on the perfect squares that Points produces.
sqrt(n) == CHOOSE r \in 0..n : r * r = n

distance_to(self, other) ==
    LET dx == self.x - other.x
        dy == self.y - other.y
        dz == self.z - other.z
    IN  sqrt(dx * dx + dy * dy + dz * dz)

\* ---------------------------------------------------------------- container

Location(id, position) == [id |-> id, position |-> position]

Route(locs, total) == [locations |-> locs, total_distance |-> total]

\* Mutant of singleton: the goal is pushed after the start.
singleton_pair(id) == Route(<<id, id>>, 0)

\* Route::singleton
singleton(id) == Route(<<id>>, 0)

location_count == Len(locations)

is_valid(id) == id < Len(locations)

\* Number of stored adjacency entries (the model bounds it).
RECURSIVE EntryCountFrom(_, _)
EntryCountFrom(adj, i) ==
    IF i > Len(adj) THEN 0 ELSE Len(adj[i]) + EntryCountFrom(adj, i + 1)

EntryCount == EntryCountFrom(adjacency, 1)

\* Result<(), &'static str>
Ok == <<"Ok">>
Err == <<"Err", "invalid LocationId">>
Results == {Ok, Err}

\* No call of shortest_route is being observed: its locals do not exist.
SearchIdle == UNCHANGED <<pc, start, goal, dist, prev, heap, popped>>

\* Each call is an action of its arguments and of the value it returns.

add_location(position, returned) ==
    /\ pc = "idle"
    /\ LET id == Len(locations)
       IN  /\ locations' = Append(locations, Location(id, position))
           /\ adjacency' = Append(adjacency, << >>)
           /\ returned = id
    /\ UNCHANGED route
    /\ SearchIdle

\* Mutant of move_location: the moved location loses its adjacency list.
move_location_drops_edges(id, new_position, returned) ==
    /\ pc = "idle"
    /\ IF ~is_valid(id)
       THEN /\ returned = Err
            /\ UNCHANGED <<locations, adjacency>>
       ELSE /\ locations' = [locations EXCEPT ![id + 1].position = new_position]
            /\ adjacency' = [adjacency EXCEPT ![id + 1] = << >>]
            /\ returned = Ok
    /\ UNCHANGED route
    /\ SearchIdle

move_location(id, new_position, returned) ==
    /\ pc = "idle"
    /\ IF ~is_valid(id)
       THEN /\ returned = Err
            /\ UNCHANGED locations
       ELSE /\ locations' = [locations EXCEPT ![id + 1].position = new_position]
            /\ returned = Ok
    /\ UNCHANGED <<adjacency, route>>
    /\ SearchIdle

\* Mutant of connect_bidirectional: b is validated only after a -> b is pushed.
connect_bidirectional_push_first(a, b, returned) ==
    /\ pc = "idle"
    /\ IF ~is_valid(a)
       THEN /\ returned = Err
            /\ UNCHANGED adjacency
       ELSE IF ~is_valid(b)
       THEN /\ returned = Err
            /\ adjacency' = [adjacency EXCEPT ![a + 1] = Append(@, b)]
       ELSE IF a = b
       THEN /\ returned = Ok
            /\ UNCHANGED adjacency
       ELSE /\ LET pushed == [adjacency EXCEPT ![a + 1] = Append(@, b)]
               IN  adjacency' = [pushed EXCEPT ![b + 1] = Append(@, a)]
            /\ returned = Ok
    /\ UNCHANGED <<locations, route>>
    /\ SearchIdle

connect_bidirectional(a, b, returned) ==
    /\ pc = "idle"
    /\ IF ~is_valid(a) \/ ~is_valid(b)
       THEN /\ returned = Err
            /\ UNCHANGED adjacency
       ELSE IF a = b
       THEN /\ returned = Ok
            /\ UNCHANGED adjacency
       ELSE /\ LET pushed == [adjacency EXCEPT ![a + 1] = Append(@, b)]
               IN  adjacency' = [pushed EXCEPT ![b + 1] = Append(@, a)]
            /\ returned = Ok
    /\ UNCHANGED <<locations, route>>
    /\ SearchIdle

\* Mutant of connect_directed: a self-edge is stored like any other.
connect_directed_self_edge(from, to, returned) ==
    /\ pc = "idle"
    /\ IF ~is_valid(from) \/ ~is_valid(to)
       THEN /\ returned = Err
            /\ UNCHANGED adjacency
       ELSE /\ adjacency' = [adjacency EXCEPT ![from + 1] = Append(@, to)]
            /\ returned = Ok
    /\ UNCHANGED <<locations, route>>
    /\ SearchIdle

connect_directed(from, to, returned) ==
    /\ pc = "idle"
    /\ IF ~is_valid(from) \/ ~is_valid(to)
       THEN /\ returned = Err
            /\ UNCHANGED adjacency
       ELSE IF from = to
       THEN /\ returned = Ok
            /\ UNCHANGED adjacency
       ELSE /\ adjacency' = [adjacency EXCEPT ![from + 1] = Append(@, to)]
            /\ returned = Ok
    /\ UNCHANGED <<locations, route>>
    /\ SearchIdle

\* ---------------------------------------------------------------- search

\* An entry of the priority queue.
State(cost, position) == [cost |-> cost, position |-> position]

\* Ord::cmp of usize and of OrderedFloat on the non-NaN costs of the search.
cmp(x, y) == IF x < y THEN "Less" ELSE IF x > y THEN "Greater" ELSE "Equal"

\* Mutant of StateCmp: the comparison on cost is not inverted, so that the
\* max-heap pops the largest cost first.
StateCmp_CostNotInverted(self, other) ==
    LET byCost == cmp(self.cost, other.cost)
    IN  IF byCost # "Equal" THEN byCost ELSE cmp(self.position, other.position)

\* Mutant of StateCmp: the tie-breaker on position is inverted too, so that
\* among equal costs the lowest handle index is popped first.
StateCmp_LowestIndexFirst(self, other) ==
    LET byCost == cmp(other.cost, self.cost)
    IN  IF byCost # "Equal" THEN byCost ELSE cmp(other.position, self.position)

\* impl Ord for State: the comparison on cost is inverted, the tie-breaker on
\* position is not.
StateCmp(self, other) ==
    LET byCost == cmp(other.cost, self.cost)
    IN  IF byCost # "Equal" THEN byCost ELSE cmp(self.position, other.position)

\* BinaryHeap::pop: the index (in push order) of a greatest entry.  Entries
\* that compare Equal are the same record, so the popped value is determined.
HeapTop(h) ==
    CHOOSE i \in 1..Len(h) : \A j \in 1..Len(h) : StateCmp(h[j], h[i]) # "Greater"

RemoveAt(h, i) == SubSeq(h, 1, i - 1) \o SubSeq(h, i + 1, Len(h))

\* `next_cost < dist[n_idx]`
Improves(next_cost, known) == next_cost < known

\* Mutant of NextCost: the cost of the popped entry is not added.
NextCost_EdgeOnly(cost, edge_len) == edge_len

\* `cost.0 + edge_len`
NextCost(cost, edge_len) == cost + edge_len

\* Mutant of Stale: a superseded entry is never skipped.
Stale_Never(cost, known) == FALSE

\* `cost.0 > dist[idx]`: the popped entry was superseded.
Stale(cost, known) == cost > known

\* Mutant of is_infinite: the test for an unreached goal never succeeds.
is_infinite_never(d) == d > Infinity

\* f64::is_infinite on the non-negative values of dist.
is_infinite(d) == d >= Infinity

\* Length of the edge u -> v from the positions stored in locs.
EdgeLen(locs, u, v) == distance_to(locs[u + 1].position, locs[v + 1].position)

\* vec![value; n]
RECURSIVE vec(_, _)
vec(value, n) == IF n = 0 THEN << >> ELSE Append(vec(value, n - 1), value)

\* The locals of shortest_route before the loop (lines 249-259).
SearchStart(locs, s) ==
    LET n == Len(locs)
    IN  [dist |-> [vec(Infinity, n) EXCEPT ![s + 1] = 0],
         prev |-> vec(None, n),
         heap |-> <<State(0, s)>>]

\* Mutant of Relax: prev is also overwritten when next_cost equals the
\* distance already known.
Relax_PrevOnTie(st, position, neighbor, next_cost) ==
    IF next_cost < st.dist[neighbor + 1]
    THEN [dist |-> [st.dist EXCEPT ![neighbor + 1] = next_cost],
          prev |-> [st.prev EXCEPT ![neighbor + 1] = Some(position)],
          heap |-> Append(st.heap, State(next_cost, neighbor))]
    ELSE IF next_cost = st.dist[neighbor + 1] /\ next_cost < Infinity
    THEN [st EXCEPT !.prev[neighbor + 1] = Some(position)]
    ELSE st

\* The body of `if next_cost < dist[n_idx]` (lines 284-291) around its test.
Relax(st, position, neighbor, next_cost) ==
    IF Improves(next_cost, st.dist[neighbor + 1])
    THEN [dist |-> [st.dist EXCEPT ![neighbor + 1] = next_cost],
          prev |-> [st.prev EXCEPT ![neighbor + 1] = Some(position)],
          heap |-> Append(st.heap, State(next_cost, neighbor))]
    ELSE st

\* The for loop over self.adjacency[idx] (lines 275-292), from its i-th entry.
RECURSIVE RelaxEdges(_, _, _, _, _, _)
RelaxEdges(locs, adj, st, cost, position, i) ==
    IF i > Len(adj[position + 1]) THEN st
    ELSE RelaxEdges(locs, adj,
                    Relax(st, position, adj[position + 1][i],
                          NextCost(cost, EdgeLen(locs, position, adj[position + 1][i]))),
                    cost, position, i + 1)

\* BinaryHeap::pop on a non-empty heap: the entry popped and the heap left.
HeapPopAt(h, top) == [entry |-> h[top], rest |-> RemoveAt(h, top)]

HeapPop(h) == HeapPopAt(h, HeapTop(h))

\* The body of the while loop (lines 262-292) for the entry just popped, on
\* the locals st as they were before the pop.
Visit(locs, adj, st, g, p) ==
    IF Stale(p.entry.cost, st.dist[p.entry.position + 1])
    THEN [st |-> [st EXCEPT !.heap = p.rest], brk |-> FALSE, expanded |-> FALSE]
    ELSE IF p.entry.position = g
    THEN [st |-> [st EXCEPT !.heap = p.rest], brk |-> TRUE, expanded |-> FALSE]
    ELSE [st |-> RelaxEdges(locs, adj, [st EXCEPT !.heap = p.rest],
                            p.entry.cost, p.entry.position, 1),
          brk |-> FALSE, expanded |-> TRUE]

\* The log entry of an iteration: the heap and dist it found, the entry it
\* popped, whether it relaxed the out-edges of the popped location.
LogEntry(st, p, v) ==
    [entry |-> p.entry, heap |-> st.heap, dist |-> st.dist, expanded |-> v.expanded]

Iterated(st, p, v) == [st |-> v.st, brk |-> v.brk, log |-> LogEntry(st, p, v)]

Popped(locs, adj, st, g, p) == Iterated(st, p, Visit(locs, adj, st, g, p))

\* One iteration of `while let Some(State { cost, position }) = heap.pop()`
\* (lines 261-293) on the locals st with a non-empty heap: the locals after
\* it, whether it left the loop through `break`, and its log entry.
LoopBody(locs, adj, st, g) == Popped(locs, adj, st, g, HeapPop(st.heap))

\* The walk along prev from the goal (lines 301-306); ids is in push order.
\* prev holds no cycle, so the walk ends; fuel only keeps the evaluation
\* finite when prev is ill-formed.
RECURSIVE WalkPrev(_, _, _, _)
WalkPrev(pv, current, ids, fuel) ==
    IF current = None \/ fuel = 0 THEN ids
    ELSE LET id == current[1]
         IN  WalkPrev(pv, pv[id + 1], Append(ids, id), fuel - 1)

\* Mutant of reverse: the ids are left in goal-to-start order.
reverse_missing(s) == s

\* Vec::reverse
RECURSIVE reverse(_)
reverse(s) == IF s = << >> THEN << >> ELSE Append(reverse(Tail(s)), Head(s))

\* After the loop (lines 295-309): the Option<Route> returned.
Reconstruct(st, g) ==
    LET goal_dist == st.dist[g + 1]
    IN  IF is_infinite(goal_dist) THEN None
        ELSE Some(Route(reverse(WalkPrev(st.prev, Some(g), << >>, Len(st.prev) + 1)),
                        goal_dist))

\* The while loop run to its end: the locals it ends with and its log.
\* AfterIteration is what follows an iteration r: the exit through `break`,
\* or the next `heap.pop()`.
RECURSIVE RunLoop(_, _, _, _, _)
AfterIteration(locs, adj, r, g, log) ==
    IF r.brk THEN [st |-> r.st, log |-> Append(log, r.log)]
    ELSE RunLoop(locs, adj, r.st, g, Append(log, r.log))

RunLoop(locs, adj, st, g, log) ==
    IF st.heap = << >> THEN [st |-> st, log |-> log]
    ELSE AfterIteration(locs, adj, LoopBody(locs, adj, st, g), g, log)

\* The locals of a call that returns before it creates them.
NoLocals == [dist |-> << >>, prev |-> << >>, heap |-> << >>]

\* What a call whose loop ended as `run` returns and leaves behind.
Returned(run, g) == [route |-> Reconstruct(run.st, g), st |-> run.st, log |-> run.log]

\* shortest_route (lines 241-310) on the network (locs, adj): the value it
\* returns, the locals it ends with and the log of its loop.
Search(locs, adj, s, g) ==
    IF ~(s < Len(locs)) \/ ~(g < Len(locs))
    THEN [route |-> None, st |-> NoLocals, log |-> << >>]
    ELSE IF s = g
    THEN [route |-> Some(singleton(s)), st |-> NoLocals, log |-> << >>]
    ELSE Returned(RunLoop(locs, adj, SearchStart(locs, s), g, << >>), g)

\* The caller queries and keeps the Route it gets.
shortest_route(s, g) ==
    /\ pc = "idle"
    /\ route' = Search(locations, adjacency, s, g).route
    /\ UNCHANGED <<locations, adjacency>>
    /\ SearchIdle

\* The same call, observed with the locals it ended with and the log of its
\* loop iterations.
shortest_route_observed(s, g) ==
    /\ pc = "idle"
    /\ \E r \in {Search(locations, adjacency, s, g)} :
           /\ route' = r.route
           /\ dist' = r.st.dist
           /\ prev' = r.st.prev
           /\ heap' = r.st.heap
           /\ popped' = r.log
    /\ start' = s
    /\ goal' = g
    /\ pc' = "done"
    /\ UNCHANGED <<locations, adjacency, ret>>

\* The caller drops the Route; the locals of the call are gone.
drop_route ==
    /\ pc = "done"
    /\ pc' = "idle"
    /\ route' = None
    /\ start' = 0
    /\ goal' = 0
    /\ dist' = << >>
    /\ prev' = << >>
    /\ heap' = << >>
    /\ popped' = << >>
    /\ UNCHANGED <<locations, adjacency, ret>>

\* ---------------------------------------------------------------- specifications

\* SpaceNetwork::new(), no call observed, no Route held.
Init ==
    /\ locations = << >>
    /\ adjacency = << >>
    /\ ret = None
    /\ route = None
    /\ pc = "idle"
    /\ start = 0
    /\ goal = 0
    /\ dist = << >>
    /\ prev = << >>
    /\ heap = << >>
    /\ popped = << >>

\* A call that stores k entries is made only while the model has room for them.
Room(a, b, k, max) == ~is_valid(a) \/ ~is_valid(b) \/ a = b \/ EntryCount + k <= max

\* The handles a caller passes: the valid ones and invalid ones.
Handles(max) == 0..max

\* The caller of Spec keeps, in ret, the value its last call other than
\* shortest_route returned, and in route the last Option<Route> it got.
Next ==
    \/ \E p \in Points, r \in Handles(MaxLocs) :
           add_location(p, r) /\ Len(locations) < MaxLocs /\ ret' = Some(r)
    \/ \E id \in Handles(MaxLocs), p \in Points, r \in Results :
           move_location(id, p, r) /\ ret' = r
    \/ \E a, b \in Handles(MaxLocs), r \in Results :
           connect_bidirectional(a, b, r) /\ Room(a, b, 2, MaxEdges) /\ ret' = r
    \/ \E a, b \in Handles(MaxLocs), r \in Results :
           connect_directed(a, b, r) /\ Room(a, b, 1, MaxEdges) /\ ret' = r
    \/ \E s, g \in Handles(MaxLocs) : shortest_route(s, g) /\ UNCHANGED ret

Spec == Init /\ [][Next]_vars

\* The caller of SpecSearch discards what the mutating calls return, and
\* searches between two different stored locations.
NextSearch ==
    \/ \E p \in SearchPoints, r \in Handles(SearchLocs) :
           add_location(p, r) /\ Len(locations) < SearchLocs /\ UNCHANGED ret
    \/ \E id \in Handles(SearchLocs), p \in SearchPoints, r \in Results :
           move_location(id, p, r) /\ UNCHANGED ret
    \/ \E a, b \in Handles(SearchLocs), r \in Results :
           connect_bidirectional(a, b, r) /\ Room(a, b, 2, SearchEdges) /\ UNCHANGED ret
    \/ \E a, b \in Handles(SearchLocs), r \in Results :
           connect_directed(a, b, r) /\ Room(a, b, 1, SearchEdges) /\ UNCHANGED ret
    \/ \E s, g \in Handles(SearchLocs) :
           s # g /\ is_valid(s) /\ is_valid(g) /\ shortest_route_observed(s, g)
    \/ drop_route

SpecSearch == Init /\ [][NextSearch]_vars

\* The caller places the location of handle id at ExpandLayout[id + 1]: the
\* start of a detour in the middle of a line, two locations at each end of it.
ExpandLayout ==
    <<Point3(1, 0, 0), Point3(0, 0, 0), Point3(2, 0, 0), Point3(2, 0, 0), Point3(0, 0, 0)>>

ExpandPosition(id) == ExpandLayout[(id % Len(ExpandLayout)) + 1]

\* The caller lays the locations out on the line, connects them, and observes
\* searches between distinct valid handles.
NextExpand ==
    \/ \E r \in Handles(ExpandLocs) :
           /\ add_location(ExpandPosition(Len(locations)), r)
           /\ Len(locations) < ExpandLocs
           /\ UNCHANGED ret
    \/ \E a, b \in Handles(ExpandLocs), r \in Results :
           connect_bidirectional(a, b, r) /\ Room(a, b, 2, ExpandEdges) /\ UNCHANGED ret
    \/ \E a, b \in Handles(ExpandLocs), r \in Results :
           connect_directed(a, b, r) /\ Room(a, b, 1, ExpandEdges) /\ UNCHANGED ret
    \/ \E s, g \in Handles(ExpandLocs) :
           s # g /\ is_valid(s) /\ is_valid(g) /\ shortest_route_observed(s, g)
    \/ drop_route

SpecExpand == Init /\ [][NextExpand]_vars

\* ---------------------------------------------------------------- properties

\* The set of the handles stored in the adjacency list of u.
Neighbours(adj, u) == {adj[u + 1][i] : i \in 1..Len(adj[u + 1])}

\* u -> v is a stored directed adjacency entry.
HasEdge(adj, u, v) == v \in Neighbours(adj, u)

Least(S) == CHOOSE x \in S : \A y \in S : x <= y

LeastOrInfinity(S) == IF S = {} THEN Infinity ELSE Least(S)

\* The least sum of edge lengths over the directed paths from u to g that
\* visit no handle of `visited` (which holds u); Infinity or more when there
\* is none.  Edge lengths are not negative, so a path that repeats a handle
\* is never shorter than the path without the repetition.
RECURSIVE MinPath(_, _, _, _, _)
MinPath(locs, adj, u, g, visited) ==
    IF u = g THEN 0
    ELSE LeastOrInfinity({EdgeLen(locs, u, v) + MinPath(locs, adj, v, g, visited \cup {v}) :
                             v \in Neighbours(adj, u) \ visited})

\* The handles reachable from those of S through the directed adjacency.
RECURSIVE ReachableFrom(_, _)
ReachableFrom(adj, S) ==
    IF \A u \in S : Neighbours(adj, u) \subseteq S THEN S
    ELSE ReachableFrom(adj, S \cup UNION {Neighbours(adj, u) : u \in S})

Reachable(adj, s, g) == g \in ReachableFrom(adj, {s})

\* Sum of the distances between consecutive handles of ids, from its i-th.
RECURSIVE PathLenFrom(_, _, _)
PathLenFrom(locs, ids, i) ==
    IF i >= Len(ids) THEN 0
    ELSE EdgeLen(locs, ids[i], ids[i + 1]) + PathLenFrom(locs, ids, i + 1)

PathLen(locs, ids) == PathLenFrom(locs, ids, 1)

\* A call of shortest_route(start, goal) has returned `route`, and the network
\* is the one it searched.
Returns == pc = "done"

DirectedSquare ==
    /\ Len(locations) = 4
    /\ adjacency = <<<<1>>, <<2>>, <<3>>, <<0>>>>

MinMultiHop(locs, adj, s, g) ==
    LeastOrInfinity({EdgeLen(locs, s, v) + MinPath(locs, adj, v, g, {s, v}) :
                        v \in Neighbours(adj, s) \ {s, g}})

\* A network holding the locations A(0,0,0), B(2,0,0), C(1,0,0) and the
\* bidirectional edges A-B, A-C, C-B.
TieLocations ==
    <<Location(0, Point3(0, 0, 0)), Location(1, Point3(2, 0, 0)), Location(2, Point3(1, 0, 0))>>

TieAdjacency == <<<<1, 2>>, <<0, 2>>, <<0, 1>>>>

C10_Original ==
    Returns =>
        \A i \in 1..Len(popped) :
            /\ i > 1 => popped[i - 1].entry.cost <= popped[i].entry.cost
            /\ \A j \in 1..Len(popped[i].heap) :
                   /\ popped[i].entry.cost <= popped[i].heap[j].cost
                   /\ popped[i].heap[j].cost = popped[i].entry.cost
                          => popped[i].entry.position <= popped[i].heap[j].position

\* C10 amended: every entry popped has the smallest cost of the heap it is
\* popped from, no smaller than the cost popped before it, and among the
\* entries of smallest cost it has the highest handle index.
C10_HighestIndexFirst ==
    Returns =>
        \A i \in 1..Len(popped) :
            /\ i > 1 => popped[i - 1].entry.cost <= popped[i].entry.cost
            /\ \E j \in 1..Len(popped[i].heap) : popped[i].heap[j] = popped[i].entry
            /\ \A j \in 1..Len(popped[i].heap) :
                   /\ popped[i].entry.cost <= popped[i].heap[j].cost
                   /\ popped[i].heap[j].cost = popped[i].entry.cost
                          => popped[i].entry.position >= popped[i].heap[j].position

\* C10 witness: an entry was popped from a heap holding another entry of the
\* same cost.
C10_Witness ==
    /\ Returns
    /\ \E i \in 1..Len(popped) : \E j \in 1..Len(popped[i].heap) :
           /\ popped[i].heap[j].cost = popped[i].entry.cost
           /\ popped[i].heap[j].position # popped[i].entry.position

\* C6: for every valid handle x, whatever edges exist, shortest_route(x, x)
\* returns the route whose sequence is [x] and whose total_distance is 0.
C6_SameStartAndGoal ==
    [][\A x \in Handles(MaxLocs) :
           (is_valid(x) /\ shortest_route(x, x)) => route' = Some(Route(<<x>>, 0))]_vars

\* C6 witness: the route [x] of distance 0 is held for a location x that
\* lies on a cycle of zero-length edges.
C6_Witness ==
    /\ route # None
    /\ route[1].total_distance = 0
    /\ Len(route[1].locations) = 1
    /\ is_valid(route[1].locations[1])
    /\ \E v \in Neighbours(adjacency, route[1].locations[1]) :
           /\ HasEdge(adjacency, v, route[1].locations[1])
           /\ EdgeLen(locations, route[1].locations[1], v) = 0

\* C7: move_location, connect_directed and connect_bidirectional return an
\* error whenever a handle they are given is not smaller than
\* location_count(), and then leave positions, adjacency and count unchanged;
\* connect_bidirectional with one invalid handle stores neither direction.
C7_InvalidHandleIsError ==
    [][/\ \A id \in Handles(MaxLocs), p \in Points, r \in Results :
              (~is_valid(id) /\ move_location(id, p, r))
                  => (r = Err /\ UNCHANGED <<locations, adjacency>>)
       /\ \A a, b \in Handles(MaxLocs), r \in Results :
              ((~is_valid(a) \/ ~is_valid(b)) /\ connect_directed(a, b, r))
                  => (r = Err /\ UNCHANGED <<locations, adjacency>>)
       /\ \A a, b \in Handles(MaxLocs), r \in Results :
              ((~is_valid(a) \/ ~is_valid(b)) /\ connect_bidirectional(a, b, r))
                  => (r = Err /\ UNCHANGED <<locations, adjacency>>)]_vars

\* C7 witness: the last call on a network with an edge returned the error.
C7_Witness ==
    /\ ret = Err
    /\ Len(locations) >= 2
    /\ EntryCount >= 1

\* r, when it is a route, has the total_distance that the positions of locs
\* give to its sequence.
TotalMatches(locs, r) == r # None => r[1].total_distance = PathLen(locs, r[1].locations)

SameSequenceOtherTotal(r, now) ==
    /\ now # None
    /\ now[1].locations = r[1].locations
    /\ now[1].total_distance # r[1].total_distance

C9_WellFormed ==
    /\ Len(adjacency) = Len(locations)
    /\ \A i \in 1..Len(locations) :
           /\ locations[i].id = i - 1
           /\ \A j \in 1..Len(adjacency[i]) :
                  /\ adjacency[i][j] < Len(locations)
                  /\ adjacency[i][j] # i - 1

\* C9 witness: three locations, one of them connected in both directions,
\* after a call that was refused.
C9_Witness ==
    /\ Len(locations) >= 3
    /\ ret = Err
    /\ \E u, v \in 0..(Len(locations) - 1) :
           HasEdge(adjacency, u, v) /\ HasEdge(adjacency, v, u)

\* C11: in every search, an iteration relaxes the out-edges of a location only
\* when the cost of the entry it popped equals the best-known distance of that
\* location; that distance is then the least path length from start, the later
\* iterations and the end of the search find it unchanged, and no other
\* iteration of the search relaxes the out-edges of the same location.
C11_ExpandedOnceAtShortest ==
    Returns =>
        \A i \in 1..Len(popped) :
            popped[i].expanded =>
                /\ popped[i].entry.cost = popped[i].dist[popped[i].entry.position + 1]
                /\ popped[i].entry.cost =
                       MinPath(locations, adjacency, start, popped[i].entry.position, {start})
                /\ dist[popped[i].entry.position + 1] = popped[i].entry.cost
                /\ \A j \in (i + 1)..Len(popped) :
                       /\ popped[j].dist[popped[i].entry.position + 1] = popped[i].entry.cost
                       /\ popped[j].expanded
                              => popped[j].entry.position # popped[i].entry.position

\* C11 witness: a search popped a superseded entry of a location, skipped it,
\* and relaxed the out-edges of that location from another entry; the network
\* holds a zero-length edge.
C11_Witness ==
    /\ Returns
    /\ \E i, j \in 1..Len(popped) :
           /\ popped[i].expanded
           /\ ~popped[j].expanded
           /\ popped[j].entry.position = popped[i].entry.position
           /\ popped[j].entry.cost > popped[j].dist[popped[j].entry.position + 1]
    /\ \E u \in 0..(Len(locations) - 1) : \E v \in Neighbours(adjacency, u) :
           EdgeLen(locations, u, v) = 0

====
